---------------------------- MODULE Spec2Model ----------------------------
(***************************************************************************)
(* AEO Tracker backend (kilerite/AOE): the question intake handler         *)
(* POST /api/preguntar, the dashboard handler GET /api/dashboard-data and  *)
(* the brand registry handlers, as state machines over the three tables    *)
(* of the store (preguntas, respuestas, marcas).                           *)
(*                                                                         *)
(* The repository holds three iterations of the same server:               *)
(*   iteration 1  src/index.js lines 1-268                                 *)
(*   iteration 2  src/index.js lines 269-433                               *)
(*   iteration 3  src/unnamed/part_000                                     *)
(* The variable `iteration` says which of them is the deployed one.        *)
(*                                                                         *)
(* Strings are sequences of one-character strings, so that toLowerCase     *)
(* and the regular-expression match are computed, not assumed.  The fixed  *)
(* pieces of the mock answers are kept as single tokens.                   *)
(***************************************************************************)
EXTENDS Integers, Sequences, FiniteSets, TLC

(***************************************************************************)
(* Bounds of the model.                                                    *)
(***************************************************************************)
MaxRequests == 2      \* requests to POST /api/preguntar served in one run
MaxBrands   == 2      \* rows ever inserted into marcas in one run
MaxAnswers  == 2      \* rows of respuestas in one run of the dashboard model
MaxBrandLen == 2      \* longest brand name drawn for the mention count
MaxTextLen  == 3      \* longest answer text drawn for the mention count

Iterations == {1, 2, 3}
Calls      == {1, 2}           \* handler executions that may be in flight together

(***************************************************************************)
(* Strings.                                                                *)
(***************************************************************************)
Alphabet == {"a", "A", ".", "("}

SeqsUpTo(S, n) == UNION {[1..k -> S] : k \in 0..n}

toLowerChar(ch) == IF ch = "A" THEN "a" ELSE ch

toLowerCase(s) == [i \in 1..Len(s) |-> toLowerChar(s[i])]

(***************************************************************************)
(* new RegExp(source, 'g') and String.prototype.match, for the sources     *)
(* the alphabet can spell: a letter matches itself, "." matches any one    *)
(* character, and a "(" that is never closed is a SyntaxError.             *)
(***************************************************************************)
RegExpThrows(source) == \E i \in 1..Len(source) : source[i] = "("

MatchesAt(source, texto, i) ==
    /\ i + Len(source) - 1 <= Len(texto)
    /\ \A j \in 1..Len(source) : source[j] = "." \/ source[j] = texto[i + j - 1]

RECURSIVE MatchFrom(_, _, _)
MatchFrom(source, texto, i) ==
    IF i > Len(texto) THEN 0
    ELSE IF MatchesAt(source, texto, i)
         THEN 1 + MatchFrom(source, texto, i + Len(source))
         ELSE MatchFrom(source, texto, i + 1)

\* (texto.match(new RegExp(brandName, 'g')) || []).length
\* (the empty source matches the empty string at every position)
MatchLength(source, texto) ==
    IF Len(source) = 0 THEN Len(texto) + 1 ELSE MatchFrom(source, texto, 1)


(***************************************************************************)
(* State.                                                                  *)
(***************************************************************************)
VARIABLES
    iteration,      \* which of the three iterations of the server runs
    preguntas,      \* table preguntas: rows in insertion order
    respuestas,     \* table respuestas: rows in insertion order
    marcas,         \* table marcas: rows in insertion order
    nreq,           \* requests to /api/preguntar received so far
    pc,             \* per call: where the handler of /api/preguntar is suspended
    reqBody,        \* per call: req.body
    pregunta,       \* per call: the row returned by the insert into preguntas
    idx,            \* per call: position of the for loop in models
    respuesta,      \* per call: the text callLLMAPI returned
    responses,      \* per call: the map `responses` (iteration 1) / `respuestas`
    res,            \* per call: the HTTP response sent, status 0 when none yet
    reqOf,          \* history, per call: number of the request it serves
    invoked,        \* history, per call: providers callLLMAPI was called for
    qOut,           \* history, per call: outcome of the insert into preguntas
    genOut,         \* history, per call and provider: outcome of callLLMAPI
    insOut,         \* history, per call and provider: outcome of the answer insert
    marcaSeq,       \* store: ids given to rows of marcas so far
    dpc,            \* where the handler of /api/dashboard-data is suspended
    dMarcas,        \* dashboard: `marcas`, the data of the first select
    dres,           \* dashboard: the HTTP response sent, status 0 when none yet
    readsOk,        \* history: both selects of the current dashboard call returned rows
    clean,          \* history: no write to marcas or respuestas since the current call began
    prevRes,        \* history: response of the previous dashboard call, kept while no
                    \* write happened since that call began and its selects returned rows
    deleted,        \* history: names of brands removeBrand deleted and addBrand has not
                    \* added again
    goneAtStart,    \* history: `deleted` as it was when the current dashboard call
                    \* began, less the names added again since
    mres,           \* the response a brand registry handler sends in this step
    brandIn,        \* mention count of one pair: the brand name
    textIn,         \* mention count of one pair: the answer text
    cpc,            \* mention count of one pair: "ready", then "counted" or "threw"
    pairTotal       \* mention count of one pair: what the brand's total received

storeVars  == <<preguntas, respuestas, marcas>>
submitVars == <<nreq, pc, reqBody, pregunta, idx, respuesta, responses, res,
                reqOf, invoked, qOut, genOut, insOut>>
dashVars   == <<dpc, dMarcas, dres, readsOk, clean, prevRes, deleted, goneAtStart>>
regVars    == <<marcaSeq, mres>>
countVars  == <<brandIn, textIn, cpc, pairTotal>>
vars == <<iteration, storeVars, submitVars, dashVars, regVars, countVars>>

(***************************************************************************)
(* POST /api/preguntar.                                                    *)
(***************************************************************************)
models == <<"Gemini", "ChatGPT", "Claude">>

Models == {models[i] : i \in 1..Len(models)}

\* req.body: texto_pregunta may be absent (undefined), "" or a text
QuestionTexts == {<<>>, <<"a">>}

Bodies == {[has |-> FALSE, texto_pregunta |-> <<>>]}
            \cup {[has |-> TRUE, texto_pregunta |-> t] : t \in QuestionTexts}

\* !texto_pregunta
Falsy_EmptyAccepted(body) == ~body.has

Falsy(body) == ~body.has \/ body.texto_pregunta = <<>>

\* mockLLMResponses[model](question)
mockLLMResponses(it, model, question) ==
    <<model, " response to: \"">> \o question \o
    (IF it = 1
     THEN CASE model = "Gemini"  -> <<"\". This is a sample response that might mention Nike shoes and Apple products.">>
            [] model = "ChatGPT" -> <<"\". Here's a detailed answer that could reference Adidas clothing and Samsung devices.">>
            [] OTHER             -> <<"\". This comprehensive answer may include mentions of Coca-Cola products and various brands.">>
     ELSE <<"\"">>)

\* the placeholder the catch block of the loop stores
ErrorPlaceholder(it, model) ==
    IF it = 1 THEN <<"Error getting response from ", model>>
              ELSE <<"Error en modelo ", model>>

StoreOutcomes == {"ok", "error", "throw"}
LLMOutcomes   == {"ok", "fail"}

NoOutcome == [m \in Models |-> "none"]
NoResponse == [status |-> 0]
NoPregunta == [id |-> 0]
NoData == [isNull |-> TRUE, rows |-> <<>>]
EmptyMap == [m \in {} |-> <<>>]

\* responses[model] = value
SetEntry(map, model, value) ==
    [m \in DOMAIN map \cup {model} |-> IF m = model THEN value ELSE map[m]]

\* if (preguntaError) return res.status(500)... : the loop is entered only
\* when the insert returned no error
ProceedToModels_Unchecked(outcome) == TRUE

ProceedToModels(outcome) == outcome = "ok"

\* the row inserted into preguntas (id given by the store; req is history)
PreguntaRow(c) ==
    [id |-> Len(preguntas) + 1,
     texto_pregunta |-> reqBody[c].texto_pregunta,
     req |-> reqOf[c]]

\* the row inserted into respuestas (req is history)
RespuestaRow_LastPregunta(c, model, texto) ==
    [id_pregunta |-> Len(preguntas), modelo_llm |-> model,
     texto_respuesta |-> texto, req |-> reqOf[c]]

RespuestaRow(c, model, texto) ==
    [id_pregunta |-> pregunta[c].id, modelo_llm |-> model,
     texto_respuesta |-> texto, req |-> reqOf[c]]

\* catch (error) { responses[model] = `Error ... ${model}` }
CatchEntry_NoPlaceholder(map, it, model) == map

CatchEntry(map, it, model) == SetEntry(map, model, ErrorPlaceholder(it, model))

\* the for loop goes on with the next provider after the catch block
AfterCatch_Break(i) == Len(models) + 1

AfterCatch_Retry(i) == i

AfterCatch(i) == i + 1

\* the body of the final res.json(...)
OkBody(it, c, map) ==
    IF it = 1
    THEN [pregunta_id |-> pregunta[c].id,
          pregunta |-> reqBody[c].texto_pregunta,
          respuestas |-> map]
    ELSE [pregunta_id |-> pregunta[c].id, respuestas |-> map]

ErrorBody(msg) == [error |-> msg]

\* An exception leaves an async handler that has no try/catch (iterations 2
\* and 3): the promise Express was given rejects.  Express 4 does not look
\* at it and the request stays unanswered; Express 5 passes the exception to
\* its default error handler, which answers 500.
UnhandledRejection == {NoResponse, [status |-> 500, body |-> [html |-> "Internal Server Error"]]}

\* The loop reaches position i with the map `map`: either callLLMAPI is called
\* for models[i], or the loop is over and the response is sent.
Loop(c, i, map) ==
    /\ responses' = [responses EXCEPT ![c] = map]
    /\ idx' = [idx EXCEPT ![c] = i]
    /\ IF i <= Len(models)
       THEN /\ pc' = [pc EXCEPT ![c] = "callLLMAPI"]
            /\ invoked' = [invoked EXCEPT ![c] = Append(@, models[i])]
            /\ res' = res
       ELSE /\ pc' = [pc EXCEPT ![c] = "done"]
            /\ invoked' = invoked
            /\ res' = [res EXCEPT ![c] = [status |-> 200, body |-> OkBody(iteration, c, map)]]

\* a call whose handler has ended (or never ran) can serve the next request
Free(c) == pc[c] \in {"idle", "done", "rejected"}

\* The request arrives; the handler runs up to its first await.  (Which free
\* call serves it makes no difference: the lowest is taken.)
Preguntar(c, body) ==
    /\ Free(c)
    /\ \A d \in Calls : Free(d) => c <= d
    /\ nreq < MaxRequests
    /\ nreq' = nreq + 1
    /\ reqOf' = [reqOf EXCEPT ![c] = nreq + 1]
    /\ reqBody' = [reqBody EXCEPT ![c] = body]
    /\ pregunta' = [pregunta EXCEPT ![c] = NoPregunta]
    /\ idx' = [idx EXCEPT ![c] = 0]
    /\ respuesta' = [respuesta EXCEPT ![c] = <<>>]
    /\ responses' = [responses EXCEPT ![c] = EmptyMap]
    /\ invoked' = [invoked EXCEPT ![c] = <<>>]
    /\ qOut' = [qOut EXCEPT ![c] = "none"]
    /\ genOut' = [genOut EXCEPT ![c] = NoOutcome]
    /\ insOut' = [insOut EXCEPT ![c] = NoOutcome]
    /\ IF Falsy(body)
       THEN /\ res' = [res EXCEPT ![c] = [status |-> 400, body |-> ErrorBody("texto_pregunta is required")]]
            /\ pc' = [pc EXCEPT ![c] = "done"]
       ELSE /\ res' = [res EXCEPT ![c] = NoResponse]
            /\ pc' = [pc EXCEPT ![c] = "insertPregunta"]
    /\ UNCHANGED <<iteration, storeVars, dashVars, regVars, countVars>>

\* The insert into preguntas completes and the handler resumes: the store
\* keeps the row and returns it, or returns an error, or the awaited promise
\* rejects.
InsertPregunta(c, outcome) ==
    /\ pc[c] = "insertPregunta"
    /\ qOut' = [qOut EXCEPT ![c] = outcome]
    /\ preguntas' = IF outcome = "ok" THEN Append(preguntas, PreguntaRow(c)) ELSE preguntas
    /\ pregunta' = [pregunta EXCEPT ![c] = IF outcome = "ok" THEN PreguntaRow(c) ELSE NoPregunta]
    /\ IF outcome = "throw"
       THEN \* the outer catch of iteration 1; iterations 2 and 3 have none and
            \* the handler's promise rejects
            /\ IF iteration = 1
               THEN /\ res' = [res EXCEPT ![c] = [status |-> 500, body |-> ErrorBody("Internal server error")]]
                    /\ pc' = [pc EXCEPT ![c] = "done"]
               ELSE /\ \E r \in UnhandledRejection : res' = [res EXCEPT ![c] = r]
                    /\ pc' = [pc EXCEPT ![c] = "rejected"]
            /\ UNCHANGED <<idx, responses, invoked>>
       ELSE IF ~ProceedToModels(outcome)
       THEN /\ res' = [res EXCEPT ![c] = [status |-> 500, body |-> ErrorBody(
                        IF iteration = 1 THEN "Failed to save question"
                                         ELSE "Error al guardar la pregunta")]]
            /\ pc' = [pc EXCEPT ![c] = "done"]
            /\ UNCHANGED <<idx, responses, invoked>>
       ELSE Loop(c, 1, responses[c])
    /\ UNCHANGED <<iteration, respuestas, marcas, nreq, reqBody, respuesta, reqOf, genOut, insOut>>
    /\ UNCHANGED <<dashVars, regVars, countVars>>

\* callLLMAPI(model, texto_pregunta) settles and the handler resumes.
CallLLMAPI(c, outcome) ==
    /\ pc[c] = "callLLMAPI"
    /\ LET model == models[idx[c]]
           texto == mockLLMResponses(iteration, model, reqBody[c].texto_pregunta)
       IN  /\ genOut' = [genOut EXCEPT ![c][model] = outcome]
           /\ IF outcome = "ok"
              THEN /\ respuesta' = [respuesta EXCEPT ![c] = texto]
                   /\ responses' = [responses EXCEPT ![c] = SetEntry(@, model, texto)]
                   /\ pc' = [pc EXCEPT ![c] = "insertRespuesta"]
                   /\ UNCHANGED <<idx, invoked, res>>
              ELSE /\ respuesta' = respuesta
                   /\ Loop(c, AfterCatch(idx[c]), CatchEntry(responses[c], iteration, model))
    /\ UNCHANGED <<iteration, storeVars, nreq, reqBody, pregunta, reqOf, qOut, insOut>>
    /\ UNCHANGED <<dashVars, regVars, countVars>>

\* The insert into respuestas completes and the handler resumes.  The value
\* the insert returns is not looked at.
InsertRespuesta(c, outcome) ==
    /\ pc[c] = "insertRespuesta"
    /\ LET model == models[idx[c]]
       IN  /\ insOut' = [insOut EXCEPT ![c][model] = outcome]
           /\ respuestas' = IF outcome = "ok"
                            THEN Append(respuestas, RespuestaRow(c, model, respuesta[c]))
                            ELSE respuestas
           /\ IF outcome = "throw"
              THEN Loop(c, AfterCatch(idx[c]), CatchEntry(responses[c], iteration, model))
              ELSE Loop(c, idx[c] + 1, responses[c])
    /\ UNCHANGED <<iteration, preguntas, marcas, nreq, reqBody, pregunta, respuesta, reqOf, qOut, genOut>>
    /\ UNCHANGED <<dashVars, regVars, countVars>>

\* no request to /api/preguntar yet
SubmitIdle ==
    /\ nreq = 0
    /\ pc = [c \in Calls |-> "idle"]
    /\ reqBody = [c \in Calls |-> [has |-> FALSE, texto_pregunta |-> <<>>]]
    /\ pregunta = [c \in Calls |-> NoPregunta]
    /\ idx = [c \in Calls |-> 0]
    /\ respuesta = [c \in Calls |-> <<>>]
    /\ responses = [c \in Calls |-> EmptyMap]
    /\ res = [c \in Calls |-> NoResponse]
    /\ reqOf = [c \in Calls |-> 0]
    /\ invoked = [c \in Calls |-> <<>>]
    /\ qOut = [c \in Calls |-> "none"]
    /\ genOut = [c \in Calls |-> NoOutcome]
    /\ insOut = [c \in Calls |-> NoOutcome]

\* no request to /api/dashboard-data or /api/marcas yet
DashIdle ==
    /\ dpc = "idle"
    /\ dMarcas = NoData
    /\ dres = NoResponse
    /\ readsOk = TRUE
    /\ clean = TRUE
    /\ prevRes = NoResponse
    /\ deleted = {}
    /\ goneAtStart = {}
    /\ marcaSeq = 0
    /\ mres = NoResponse

\* no single pair is being counted
CountIdle ==
    /\ brandIn = <<>>
    /\ textIn = <<>>
    /\ cpc = "idle"
    /\ pairTotal = 0

Init ==
    /\ iteration \in Iterations
    /\ preguntas = <<>>
    /\ respuestas = <<>>
    /\ marcas = <<>>
    /\ SubmitIdle
    /\ DashIdle
    /\ CountIdle

Next ==
    \/ \E c \in Calls, body \in Bodies : Preguntar(c, body)
    \/ \E c \in Calls, outcome \in StoreOutcomes : InsertPregunta(c, outcome)
    \/ \E c \in Calls, outcome \in LLMOutcomes : CallLLMAPI(c, outcome)
    \/ \E c \in Calls, outcome \in StoreOutcomes : InsertRespuesta(c, outcome)

Spec == Init /\ [][Next]_vars

(***************************************************************************)
(* GET /api/dashboard-data.                                                *)
(***************************************************************************)
\* the provider names answers may carry: the three configured ones and one
\* that is not configured (a row written before the provider set changed)
ProviderNames == Models \cup {"X"}

BrandNames == {<<"a">>, <<"1">>, <<"(">>}

\* texts of the answers stored while the dashboard is in use, and of the
\* rows found at start
AnswerTexts == {<<"a", "1">>}

LegacyTexts == {<<"A", "a">>}

\* Number + Number where either may be NaN (undefined + n is NaN)
NaN == -1

Add(x, n) == IF x = NaN THEN NaN ELSE x + n

NameSet(ms) == {ms[i].nombre_marca : i \in 1..Len(ms)}

\* property names in the order of their first assignment
RECURSIVE FirstAssigned(_, _)
FirstAssigned(ms, i) ==
    IF i = 0 THEN <<>>
    ELSE LET before == FirstAssigned(ms, i - 1)
         IN  IF \E j \in 1..Len(before) : before[j] = ms[i].nombre_marca
             THEN before
             ELSE Append(before, ms[i].nombre_marca)

\* brandMentions as the first forEach leaves it: a fresh object with a 0 for
\* every brand (order: the property order, at: the values)
InitBrandMentions_Kept(ms) ==
    [order |-> FirstAssigned(ms, Len(ms)),
     at |-> [n \in NameSet(ms) |->
                IF prevRes.status = 200 /\ n \in DOMAIN prevRes.body.brandMentions
                THEN prevRes.body.brandMentions[n] ELSE 0]]

InitBrandMentions(ms) ==
    [order |-> FirstAssigned(ms, Len(ms)),
     at |-> [n \in NameSet(ms) |-> 0]]

\* modelBrandMentions as the first forEach leaves it
InitModelBrandMentions(ms) ==
    [n \in NameSet(ms) |-> [m \in {"Gemini", "ChatGPT", "Claude"} |-> 0]]

\* respuesta.texto_respuesta.toLowerCase()
AnswerText(texto_respuesta) == toLowerCase(texto_respuesta)

\* marca.nombre_marca.toLowerCase(), the source of the RegExp
BrandSource_NotFolded(nombre_marca) == nombre_marca

BrandSource(nombre_marca) == toLowerCase(nombre_marca)

\* modelBrandMentions[nombre][modelo] += mentions: guarded by
\* `!== undefined` in iteration 1, unguarded in iterations 2 and 3
AddModelMentions_Unguarded(it, inner, modelo, mentions) ==
    SetEntry(inner, modelo,
             IF modelo \in DOMAIN inner THEN Add(inner[modelo], mentions) ELSE NaN)

AddModelMentions(it, inner, modelo, mentions) ==
    IF it = 1
    THEN IF modelo \in DOMAIN inner
         THEN [inner EXCEPT ![modelo] = Add(@, mentions)]
         ELSE inner
    ELSE AddModelMentions_Unguarded(it, inner, modelo, mentions)

\* the body of the inner forEach for one answer and one brand; acc.threw is
\* set when new RegExp throws, which ends both loops
CountMarca(it, acc, r, marca) ==
    LET texto == AnswerText(r.texto_respuesta)
        modelo == r.modelo_llm
        nombre == marca.nombre_marca
        brandName == BrandSource(nombre)
    IN  IF acc.threw THEN acc
        ELSE IF RegExpThrows(brandName) THEN [acc EXCEPT !.threw = TRUE]
        ELSE LET mentions == MatchLength(brandName, texto)
             IN  IF mentions > 0
                 THEN [acc EXCEPT
                         !.brandMentions.at[nombre] = Add(@, mentions),
                         !.modelBrandMentions[nombre] =
                             AddModelMentions(it, @, modelo, mentions)]
                 ELSE acc

\* marcas.forEach(marca => ...) for one answer
RECURSIVE CountMarcas(_, _, _, _, _)
CountMarcas(it, acc, r, ms, j) ==
    IF j > Len(ms) THEN acc
    ELSE CountMarcas(it, CountMarca(it, acc, r, ms[j]), r, ms, j + 1)

\* respuestas.forEach(respuesta => ...)
RECURSIVE CountRespuestas(_, _, _, _, _)
CountRespuestas(it, acc, rs, ms, i) ==
    IF i > Len(rs) THEN acc
    ELSE CountRespuestas(it, CountMarcas(it, acc, rs[i], ms, 1), rs, ms, i + 1)

\* Object.keys: the names that are canonical array indices first, ascending,
\* then the other names in the order of their first assignment
Digits == <<"0", "1", "2", "3", "4", "5", "6", "7", "8", "9">>

IsDigit(ch) == \E d \in 1..10 : Digits[d] = ch

IsArrayIndex(key) ==
    /\ Len(key) > 0
    /\ \A i \in 1..Len(key) : IsDigit(key[i])
    /\ Len(key) > 1 => key[1] # "0"

RECURSIVE IndexValue(_, _)
IndexValue(key, n) ==
    IF n = 0 THEN 0
    ELSE 10 * IndexValue(key, n - 1) + (CHOOSE d \in 1..10 : Digits[d] = key[n]) - 1

RECURSIVE Ascending(_)
Ascending(keys) ==
    IF keys = {} THEN <<>>
    ELSE LET least == CHOOSE k \in keys :
                        \A o \in keys : IndexValue(k, Len(k)) <= IndexValue(o, Len(o))
         IN  <<least>> \o Ascending(keys \ {least})

ObjectKeys(obj) ==
    Ascending({obj.order[i] : i \in {j \in 1..Len(obj.order) : IsArrayIndex(obj.order[j])}})
        \o SelectSeq(obj.order, LAMBDA k : ~IsArrayIndex(k))

\* Object.values: the values in the order of Object.keys
ObjectValues(obj) ==
    LET keys == ObjectKeys(obj) IN [i \in 1..Len(keys) |-> obj.at[keys[i]]]

\* the counting of lines 116-146 on the rows read
Aggregate(it, ms, rs) ==
    CountRespuestas(it,
        [brandMentions |-> InitBrandMentions(ms),
         modelBrandMentions |-> InitModelBrandMentions(ms),
         threw |-> FALSE],
        rs, ms, 1)

\* the body of the final res.json(...)
DashboardBody(acc, ms, rs) ==
    [brandMentions |-> acc.brandMentions.at,
     modelBrandMentions |-> acc.modelBrandMentions,
     pieChartData |-> [labels |-> ObjectKeys(acc.brandMentions),
                       data |-> ObjectValues(acc.brandMentions)],
     totalResponses |-> Len(rs),
     totalBrands |-> Len(ms)]

\* the message of the catch block of the dashboard handler
DashboardCatch(it) ==
    [status |-> 500,
     body |-> ErrorBody(CASE it = 1 -> "Internal server error"
                          [] it = 2 -> "Error interno al procesar dashboard"
                          [] OTHER  -> "Error en dashboard-data")]

\* A write to marcas or respuestas, for the dashboard's variables: a call
\* in flight is no longer clean, and the responses of finished calls, which
\* describe the tables as they were, are not kept.
Written ==
    /\ clean' = FALSE
    /\ prevRes' = NoResponse
    /\ dpc' = IF dpc = "done" THEN "idle" ELSE dpc
    /\ dres' = NoResponse

NotWritten == UNCHANGED <<clean, prevRes, dpc, dres>>

\* The request arrives and the select on marcas is issued.
DashboardData ==
    /\ dpc \in {"idle", "done"}
    /\ dpc' = "selectMarcas"
    /\ dMarcas' = NoData
    /\ dres' = NoResponse
    /\ prevRes' = IF dpc = "done" /\ clean /\ readsOk THEN dres ELSE NoResponse
    /\ clean' = TRUE
    /\ readsOk' = TRUE
    /\ mres' = NoResponse
    /\ goneAtStart' = deleted
    /\ UNCHANGED <<iteration, storeVars, submitVars, countVars, marcaSeq, deleted>>

\* The select on marcas completes; the select on respuestas is issued unless
\* the handler has answered.
SelectMarcas(outcome) ==
    /\ dpc = "selectMarcas"
    /\ readsOk' = (outcome = "ok")
    /\ IF outcome = "throw"
       THEN /\ dres' = DashboardCatch(iteration)
            /\ dpc' = "done"
            /\ dMarcas' = dMarcas
       ELSE IF outcome = "error" /\ iteration = 1
       THEN /\ dres' = [status |-> 500, body |-> ErrorBody("Failed to fetch brands")]
            /\ dpc' = "done"
            /\ dMarcas' = dMarcas
       ELSE \* iterations 2 and 3 do not look at `error`: marcas is null then
            /\ dMarcas' = IF outcome = "ok" THEN [isNull |-> FALSE, rows |-> marcas]
                                            ELSE NoData
            /\ dpc' = "selectRespuestas"
            /\ dres' = dres
    /\ mres' = NoResponse
    /\ UNCHANGED <<iteration, storeVars, submitVars, countVars, marcaSeq, clean, prevRes, deleted, goneAtStart>>

\* The select on respuestas completes; the handler counts and answers.
SelectRespuestas(outcome) ==
    /\ dpc = "selectRespuestas"
    /\ readsOk' = (readsOk /\ outcome = "ok")
    /\ dpc' = "done"
    /\ IF outcome = "throw"
       THEN dres' = DashboardCatch(iteration)
       ELSE IF outcome = "error" /\ iteration = 1
       THEN dres' = [status |-> 500, body |-> ErrorBody("Failed to fetch responses")]
       ELSE IF dMarcas.isNull \/ outcome = "error"
       THEN \* marcas.forEach or respuestas.forEach on null: a TypeError
            dres' = DashboardCatch(iteration)
       ELSE LET acc == Aggregate(iteration, dMarcas.rows, respuestas)
            IN  dres' = IF acc.threw
                        THEN DashboardCatch(iteration)
                        ELSE [status |-> 200,
                              body |-> DashboardBody(acc, dMarcas.rows, respuestas)]
    /\ mres' = NoResponse
    /\ UNCHANGED <<iteration, storeVars, submitVars, countVars, marcaSeq, dMarcas, clean, prevRes, deleted, goneAtStart>>

(***************************************************************************)
(* POST /api/marcas and DELETE /api/marcas/:id.  Each handler has a single *)
(* await, on the one store operation it issues.                            *)
(***************************************************************************)
MarcaBodies == {[has |-> FALSE, nombre_marca |-> <<>>]}
                 \cup {[has |-> TRUE, nombre_marca |-> n] : n \in BrandNames \cup {<<>>}}

\* !nombre_marca
FalsyMarca_EmptyAccepted(body) == ~body.has

FalsyMarca(body) == ~body.has \/ body.nombre_marca = <<>>

\* the store keeps brand names unique: an insert of a name already in marcas
\* is rejected
StoreAcceptsMarca(nombre_marca) == nombre_marca \notin NameSet(marcas)

\* a store operation that threw, the responses that can follow: that of the
\* outer catch in iteration 1, those of a rejected promise in iterations 2
\* and 3
RegistryCatch(it, op) ==
    IF it = 1 THEN {[op |-> op, status |-> 500, body |-> ErrorBody("Internal server error")]}
              ELSE {IF r.status = 0 THEN [op |-> op, status |-> 0]
                                    ELSE [op |-> op, status |-> r.status, body |-> r.body] :
                        r \in UnhandledRejection}

AddBrand(body, outcome) ==
    /\ IF FalsyMarca(body)
       THEN /\ outcome = "ok"
            /\ mres' = [op |-> "add", status |-> 400,
                        body |-> ErrorBody(IF iteration = 1 THEN "nombre_marca is required"
                                                            ELSE "nombre_marca requerido")]
            /\ UNCHANGED <<marcas, marcaSeq, deleted, goneAtStart>>
            /\ NotWritten
       ELSE IF outcome = "ok"
       THEN /\ marcaSeq < MaxBrands
            /\ StoreAcceptsMarca(body.nombre_marca)
            /\ marcas' = Append(marcas, [id |-> marcaSeq + 1, nombre_marca |-> body.nombre_marca])
            /\ marcaSeq' = marcaSeq + 1
            /\ mres' = [op |-> "add", status |-> 200,
                        body |-> [id |-> marcaSeq + 1, nombre_marca |-> body.nombre_marca]]
            /\ deleted' = deleted \ {body.nombre_marca}
            /\ goneAtStart' = goneAtStart \ {body.nombre_marca}
            /\ Written
       ELSE /\ mres' \in IF outcome = "throw"
                         THEN RegistryCatch(iteration, "add")
                         ELSE {[op |-> "add", status |-> 500,
                                body |-> ErrorBody(IF iteration = 1 THEN "Failed to add brand"
                                                                    ELSE "Error al guardar marca")]}
            /\ UNCHANGED <<marcas, marcaSeq, deleted, goneAtStart>>
            /\ NotWritten
    /\ UNCHANGED <<iteration, preguntas, respuestas, submitVars, countVars, dMarcas, readsOk>>

\* .delete().eq('id', id): the rows the store keeps
DeleteEq_NotIssued(ms, id) == ms

DeleteEq_Lte(ms, id) == SelectSeq(ms, LAMBDA m : m.id > id)

DeleteEq(ms, id) == SelectSeq(ms, LAMBDA m : m.id # id)

RemoveBrand(id, outcome) ==
    /\ IF outcome = "ok"
       THEN /\ marcas' = DeleteEq(marcas, id)
            /\ mres' = [op |-> "delete", status |-> 200, body |-> [success |-> TRUE]]
            /\ deleted' = deleted \cup {marcas[i].nombre_marca :
                                            i \in {j \in 1..Len(marcas) : marcas[j].id = id}}
            /\ IF marcas' # marcas THEN Written ELSE NotWritten
       ELSE /\ mres' \in IF outcome = "throw"
                         THEN RegistryCatch(iteration, "delete")
                         ELSE {[op |-> "delete", status |-> 500,
                                body |-> ErrorBody(IF iteration = 1 THEN "Failed to delete brand"
                                                                    ELSE "Error al eliminar marca")]}
            /\ UNCHANGED <<marcas, deleted>>
            /\ NotWritten
    /\ UNCHANGED <<iteration, preguntas, respuestas, submitVars, countVars, dMarcas, readsOk, marcaSeq,
                   goneAtStart>>

\* An answer insert of some /api/preguntar call completes while the
\* dashboard is in use (the insert of InsertRespuesta, seen from the store).
AnswerStored(model, texto) ==
    /\ Len(respuestas) < MaxAnswers
    /\ respuestas' = Append(respuestas,
            [id_pregunta |-> 1, modelo_llm |-> model, texto_respuesta |-> texto, req |-> 0])
    /\ Written
    /\ mres' = NoResponse
    /\ UNCHANGED <<iteration, preguntas, marcas, submitVars, countVars, dMarcas, readsOk, marcaSeq,
                   deleted, goneAtStart>>

\* rows respuestas may hold when the server starts: none, or one written for
\* a provider that is not configured any more
LegacyCorpora ==
    {<<>>} \cup {<<[id_pregunta |-> 1, modelo_llm |-> "X", texto_respuesta |-> t, req |-> 0]>> :
                    t \in LegacyTexts}

InitDash ==
    /\ iteration \in Iterations
    /\ preguntas = <<>>
    /\ respuestas \in LegacyCorpora
    /\ marcas = <<>>
    /\ SubmitIdle
    /\ DashIdle
    /\ CountIdle

\* Registry requests that fail change no table, so the dashboard cannot
\* tell them from no request: here the registry handlers run with valid
\* names and a store that accepts the operation.
NextDash ==
    \/ DashboardData
    \/ \E outcome \in StoreOutcomes : SelectMarcas(outcome)
    \/ \E outcome \in StoreOutcomes : SelectRespuestas(outcome)
    \/ \E n \in BrandNames : AddBrand([has |-> TRUE, nombre_marca |-> n], "ok")
    \/ \E id \in 1..(MaxBrands + 1) : RemoveBrand(id, "ok")
    \/ \E model \in Models, texto \in AnswerTexts : AnswerStored(model, texto)

SpecDash == InitDash /\ [][NextDash]_vars

(***************************************************************************)
(* The mention count of one brand in one answer: the dashboard's counting  *)
(* applied to a corpus of one brand and one answer, for every brand name   *)
(* and answer text over the alphabet up to the bounds.                     *)
(***************************************************************************)
BrandNamesUpTo(n) == SeqsUpTo(Alphabet, n) \ {<<>>}

OneBrand(nombre_marca) == <<[id |-> 1, nombre_marca |-> nombre_marca]>>

OneAnswer(texto_respuesta) ==
    <<[id_pregunta |-> 1, modelo_llm |-> "Gemini",
       texto_respuesta |-> texto_respuesta, req |-> 0]>>

CountMentions ==
    /\ cpc = "ready"
    /\ LET acc == Aggregate(iteration, OneBrand(brandIn), OneAnswer(textIn))
       IN  /\ cpc' = IF acc.threw THEN "threw" ELSE "counted"
           /\ pairTotal' = acc.brandMentions.at[brandIn]
    /\ UNCHANGED <<iteration, storeVars, submitVars, dashVars, regVars, brandIn, textIn>>

InitCount ==
    /\ iteration \in Iterations
    /\ preguntas = <<>>
    /\ respuestas = <<>>
    /\ marcas = <<>>
    /\ SubmitIdle
    /\ DashIdle
    /\ brandIn \in BrandNamesUpTo(MaxBrandLen)
    /\ textIn \in SeqsUpTo(Alphabet, MaxTextLen)
    /\ cpc = "ready"
    /\ pairTotal = 0

NextCount == CountMentions

SpecCount == InitCount /\ [][NextCount]_vars

(***************************************************************************)
(* Properties of POST /api/preguntar (specification Spec).                 *)
(***************************************************************************)
Rows(table) == {table[i] : i \in 1..Len(table)}

\* the request call c serves left a row in preguntas
QuestionPersisted(c) == \E q \in Rows(preguntas) : q.req = reqOf[c]

\* rows of respuestas written for the request call c serves
AnswersOf(c) == {i \in 1..Len(respuestas) : respuestas[i].req = reqOf[c]}

EmptyOrMissing(body) == ~body.has \/ Len(body.texto_pregunta) = 0

\* C1: a submit with a non-empty text whose Question was persisted answers
\* 200 with a result map that has exactly the three configured providers as
\* keys, whatever providers or answer inserts failed.
C1_OneEntryPerProvider ==
    \A c \in Calls :
        (pc[c] = "done" /\ ~EmptyOrMissing(reqBody[c]) /\ QuestionPersisted(c))
            => /\ res[c].status = 200
               /\ DOMAIN res[c].body.respuestas = Models

C1_Witness ==
    \E c \in Calls :
        /\ pc[c] = "done" /\ QuestionPersisted(c) /\ res[c].status = 200
        /\ genOut[c]["Gemini"] = "fail"
        /\ insOut[c]["ChatGPT"] = "throw"
        /\ insOut[c]["Claude"] = "ok"

\* C2 (as claimed): with k providers failing out of n, the response has n-k
\* generated texts and k placeholders, and exactly n-k Answers are stored
\* for the question, whatever the answer inserts did.
C2_PartialFailureCounts ==
    \A c \in Calls :
        (pc[c] = "done" /\ res[c].status = 200)
            => LET k == Cardinality({m \in Models : genOut[c][m] = "fail"})
                   n == Len(models)
                   map == res[c].body.respuestas
                   texts == {m \in DOMAIN map : map[m] =
                                mockLLMResponses(iteration, m, reqBody[c].texto_pregunta)}
                   errors == {m \in DOMAIN map : map[m] = ErrorPlaceholder(iteration, m)}
               IN  /\ Cardinality(DOMAIN map) = n
                   /\ Cardinality(texts) = n - k
                   /\ Cardinality(errors) = k
                   /\ Cardinality(AnswersOf(c)) = n - k

\* C3: an empty or missing texto_pregunta is answered 400 at once, and
\* nothing is inserted and no provider is called for that request.
C3_ValidationNoPersistence ==
    \A c \in Calls :
        (pc[c] # "idle" /\ EmptyOrMissing(reqBody[c]))
            => /\ pc[c] = "done"
               /\ res[c].status = 400
               /\ qOut[c] = "none"
               /\ ~QuestionPersisted(c)
               /\ invoked[c] = <<>>
               /\ AnswersOf(c) = {}

C3_Witness ==
    \E c \in Calls :
        /\ pc[c] = "done" /\ reqBody[c].has /\ reqBody[c].texto_pregunta = <<>>
        /\ res[c].status = 400
        /\ \E d \in Calls : d # c /\ QuestionPersisted(d)

\* C4: when the insert of the Question fails (an error returned, or the
\* insert throwing), the call ends there as a failure: it never answers 200
\* (it answers 500, or as in iterations 2 and 3 on a throw the handler's
\* promise rejects with the store's exception and the handler itself sends
\* nothing), no provider is called and no Answer is inserted for it.
C4_QuestionFailureStops ==
    \A c \in Calls :
        qOut[c] \in {"error", "throw"}
            => /\ pc[c] \in {"done", "rejected"}
               /\ pc[c] = "done" => res[c].status = 500
               /\ pc[c] = "rejected" => res[c] \in UnhandledRejection
               /\ qOut[c] = "error" => pc[c] = "done"
               /\ ~QuestionPersisted(c)
               /\ invoked[c] = <<>>
               /\ responses[c] = EmptyMap
               /\ AnswersOf(c) = {}

C4_Witness ==
    \E c, d \in Calls :
        /\ qOut[c] = "error" /\ res[c].status = 500
        /\ d # c /\ Len(invoked[d]) > 0

\* C5: every row of respuestas carries the id of the row of preguntas that
\* the same request inserted, under every interleaving of the calls.
C5_AnswerMatchesOwnQuestion ==
    \A r \in Rows(respuestas) :
        \E q \in Rows(preguntas) : q.id = r.id_pregunta /\ q.req = r.req

C5_Witness ==
    \E i, j \in 1..Len(respuestas) :
        /\ i < j
        /\ respuestas[i].req = 2 /\ respuestas[j].req = 1
        /\ \E k \in 1..Len(respuestas) : k < i /\ respuestas[k].req = 1

\* C6: once the Question is persisted, a provider whose generation or whose
\* answer insert fails stops nothing: the call never ends before callLLMAPI
\* was called for every provider in order, every answer generated and
\* accepted by the store is in respuestas, and the call answers 200.
C6_FailureIsolated ==
    \A c \in Calls :
        QuestionPersisted(c)
            => /\ pc[c] # "rejected"
               /\ pc[c] = "done"
                    => /\ res[c].status = 200
                       /\ invoked[c] = models
                       /\ \A m \in Models :
                            (genOut[c][m] = "ok" /\ insOut[c][m] = "ok")
                                => \E i \in AnswersOf(c) :
                                      /\ respuestas[i].modelo_llm = m
                                      /\ respuestas[i].texto_respuesta = res[c].body.respuestas[m]

C6_Witness ==
    \E c \in Calls :
        /\ pc[c] = "done" /\ res[c].status = 200
        /\ genOut[c]["Gemini"] = "fail"
        /\ insOut[c]["ChatGPT"] = "error"
        /\ insOut[c]["Claude"] = "ok"
        /\ \E i \in AnswersOf(c) : respuestas[i].modelo_llm = "Claude"

(***************************************************************************)
(* Properties of GET /api/dashboard-data (specification SpecDash) and of   *)
(* the mention count of one pair (specification SpecCount).                *)
(***************************************************************************)
\* occurrences of the case-folded name in the case-folded text of one row
MentionsIn(nombre_marca, r) ==
    MatchLength(toLowerCase(nombre_marca), toLowerCase(r.texto_respuesta))

RECURSIVE SumMentions(_, _, _, _)
\* mentions of a name in the first i rows whose provider is in `providers`
SumMentions(nombre_marca, rs, providers, i) ==
    IF i = 0 THEN 0
    ELSE SumMentions(nombre_marca, rs, providers, i - 1)
            + (IF rs[i].modelo_llm \in providers THEN MentionsIn(nombre_marca, rs[i]) ELSE 0)

\* the rows a dashboard call read are usable: both selects returned rows and
\* every brand name read is a valid pattern
Countable ==
    /\ dpc = "done" /\ readsOk
    /\ \A n \in NameSet(dMarcas.rows) : ~RegExpThrows(toLowerCase(n))

\* C7 (as claimed): an answer of a provider that is not configured adds its
\* mentions to the brand's total, leaves the brand's breakdown with exactly
\* the configured providers as keys and their own counts as values, and
\* the call does not fail.
C7_UnknownProviderIgnored ==
    Countable
        => /\ dres.status = 200
           /\ \A n \in NameSet(dMarcas.rows) :
                /\ dres.body.brandMentions[n] =
                       SumMentions(n, respuestas, ProviderNames, Len(respuestas))
                /\ DOMAIN dres.body.modelBrandMentions[n] = Models
                /\ \A m \in Models :
                       dres.body.modelBrandMentions[n][m] =
                           SumMentions(n, respuestas, {m}, Len(respuestas))

\* the literal, non-overlapping, left-to-right count of b in t
RECURSIVE LiteralFrom(_, _, _)
LiteralFrom(b, t, i) ==
    IF i + Len(b) - 1 > Len(t) THEN 0
    ELSE IF SubSeq(t, i, i + Len(b) - 1) = b
         THEN 1 + LiteralFrom(b, t, i + Len(b))
         ELSE LiteralFrom(b, t, i + 1)

Folded(str) == [i \in 1..Len(str) |-> IF str[i] = "A" THEN "a" ELSE str[i]]

\* C8 (as claimed): for every brand name and answer text, what the brand's
\* total receives for the pair is the number of non-overlapping occurrences
\* of the case-folded name as a literal substring of the case-folded text.
C8_LiteralNonOverlapping ==
    cpc \in {"counted", "threw"}
        => /\ cpc = "counted"
           /\ pairTotal = LiteralFrom(Folded(brandIn), Folded(textIn), 1)

\* the strings that differ from str in letter case only
CaseVariants(str) ==
    {v \in [1..Len(str) -> Alphabet] :
        \A i \in 1..Len(str) : v[i] = str[i] \/ {v[i], str[i]} = {"a", "A"}}

\* C9: changing the letter case of the brand name or of the answer text
\* changes nothing in what the pair contributes (nor in whether the pattern
\* is rejected).
C9_CaseInsensitive ==
    cpc \in {"counted", "threw"}
        => \A b \in CaseVariants(brandIn), t \in CaseVariants(textIn) :
              LET acc == Aggregate(iteration, OneBrand(b), OneAnswer(t))
              IN  /\ acc.threw = (cpc = "threw")
                  /\ acc.brandMentions.at[b] = pairTotal

C9_Witness ==
    /\ cpc = "counted"
    /\ brandIn = <<"A", "a">>
    /\ textIn = <<"a", "A", "a">>
    /\ pairTotal = 1

\* C10: a step of the dashboard handler changes no table, and a call that
\* ends with no write to marcas or respuestas since the previous call began
\* (both calls having read their rows) sends the response the previous call
\* sent: totals, breakdown, chart summary and counts.
C10_IdempotentAndPure ==
    [][(dpc' # dpc /\ dpc' # "idle")
          => /\ UNCHANGED <<preguntas, respuestas, marcas, marcaSeq>>
             /\ (dpc' = "done" /\ clean' /\ readsOk' /\ prevRes'.status # 0)
                    => dres' = prevRes']_vars

C10_Witness ==
    /\ dpc = "done" /\ clean /\ readsOk
    /\ prevRes.status = 200
    /\ dres = prevRes
    /\ \E n \in DOMAIN dres.body.brandMentions : dres.body.brandMentions[n] > 0
    /\ Len(dres.body.pieChartData.labels) = 2

\* C11: a dashboard call that began after removeBrand deleted a brand, the
\* brand not having been added again, answers with no total, no breakdown
\* and no chart label for that brand, whatever the stored answers mention;
\* and a removeBrand step changes no row of preguntas or respuestas.
C11_DeletedBrandNotReported ==
    [][/\ (dpc' = "done" /\ dres'.status = 200)
            => \A n \in goneAtStart' :
                  /\ n \notin DOMAIN dres'.body.brandMentions
                  /\ n \notin DOMAIN dres'.body.modelBrandMentions
                  /\ \A i \in 1..Len(dres'.body.pieChartData.labels) :
                        dres'.body.pieChartData.labels[i] # n
       /\ (mres'.status # 0 /\ mres'.op = "delete")
            => UNCHANGED <<preguntas, respuestas>>]_vars

\* a call answered 200 after the brand "a" was deleted, with a stored answer
\* that mentions "a"
C11_Witness ==
    /\ dpc = "done" /\ dres.status = 200
    /\ <<"a">> \in goneAtStart
    /\ \E i \in 1..Len(respuestas) : MatchLength(<<"a">>, toLowerCase(respuestas[i].texto_respuesta)) > 0
    /\ \E i \in 1..Len(respuestas) : respuestas[i].modelo_llm \in Models
    /\ dres.body.totalBrands = 1

\* the brand names of the rows a select on marcas returned, in row order
RegistryOrder(ms) == [i \in 1..Len(ms) |-> ms[i].nombre_marca]

\* C12: in every 200 response of the dashboard the chart summary holds two
\* sequences of equal length with one position per brand, the labels are the
\* brand names in the order the select on marcas returned them, and data[i]
\* is the total of labels[i], names that look like integers included.
C12_ChartInRegistryOrder ==
    (dpc = "done" /\ dres.status = 200)
        => LET chart == dres.body.pieChartData
           IN  /\ Len(chart.labels) = Len(chart.data)
               /\ Len(chart.labels) = Len(dMarcas.rows)
               /\ chart.labels = RegistryOrder(dMarcas.rows)
               /\ \A i \in 1..Len(chart.labels) :
                     chart.data[i] = dres.body.brandMentions[chart.labels[i]]

\* C13: every 200 response of a submit carries the id of the Question row
\* created for the request, the question text as it was submitted, and the
\* result map with one entry for every configured provider.
C13_SuccessBody ==
    \A c \in Calls :
        (pc[c] = "done" /\ res[c].status = 200)
            => /\ \E q \in Rows(preguntas) :
                     q.req = reqOf[c] /\ res[c].body.pregunta_id = q.id
               /\ "pregunta" \in DOMAIN res[c].body
               /\ res[c].body.pregunta = reqBody[c].texto_pregunta
               /\ DOMAIN res[c].body.respuestas = Models

\* C14: a finished submit surfaces every error it handled: 400 for an empty
\* or missing text, 500 when the question insert failed, and in a 200
\* response the entry of a provider whose call failed or whose answer insert
\* failed (returned an error or threw) is not the generated text, which
\* would present the Answer as stored.
C14_ErrorsSurfaced ==
    \A c \in Calls :
        pc[c] = "done"
            => /\ EmptyOrMissing(reqBody[c]) => res[c].status = 400
               /\ qOut[c] = "error" => res[c].status = 500
               /\ res[c].status = 200
                    => \A m \in Models :
                          (genOut[c][m] = "fail" \/ insOut[c][m] \in {"error", "throw"})
                             => res[c].body.respuestas[m] #
                                   mockLLMResponses(iteration, m, reqBody[c].texto_pregunta)

(***************************************************************************)
(* The brand registry on its own: POST /api/marcas with every body and     *)
(* DELETE /api/marcas/:id with every id, against a store that accepts the  *)
(* operation, returns an error or throws.                                  *)
(***************************************************************************)
BrandIds == 1..(MaxBrands + 1)

InitReg == Init

NextReg ==
    \/ \E body \in MarcaBodies, outcome \in StoreOutcomes : AddBrand(body, outcome)
    \/ \E id \in BrandIds, outcome \in StoreOutcomes : RemoveBrand(id, outcome)

SpecReg == InitReg /\ [][NextReg]_vars

\* C15: a removeBrand the store accepts answers success; when no row has the
\* id, marcas is left as it was; afterwards no row has the id, so that a
\* second call with the same id is such a call: success again and the state
\* the first call left.
C15_RemoveIdempotent ==
    [][\A id \in BrandIds :
          RemoveBrand(id, "ok")
             => /\ mres'.status = 200 /\ mres'.body = [success |-> TRUE]
                /\ (\A m \in Rows(marcas) : m.id # id) => marcas' = marcas
                /\ \A m \in Rows(marcas') : m.id # id
                /\ \A m \in Rows(marcas) : m.id # id => m \in Rows(marcas')
                /\ UNCHANGED <<preguntas, respuestas, marcaSeq>>]_vars

\* the only brand ever added is still there after a removeBrand answered
\* success: its id matched no row
C15_Witness ==
    /\ mres.status = 200 /\ mres.op = "delete"
    /\ marcaSeq = 1
    /\ Len(marcas) = 1

\* the name of the body is missing or empty
EmptyName(body) == ~body.has \/ Len(body.nombre_marca) = 0

\* C16: addBrand with an empty or missing name answers 400 and changes no
\* table; addBrand whose insert the store rejects (returns an error) answers
\* 500 and leaves marcas as it was.
C16_AddBrandFailures ==
    [][\A body \in MarcaBodies, outcome \in StoreOutcomes :
          AddBrand(body, outcome)
             => /\ EmptyName(body)
                    => /\ mres'.status = 400
                       /\ UNCHANGED <<preguntas, respuestas, marcas, marcaSeq>>
                /\ (~EmptyName(body) /\ outcome = "error")
                    => /\ mres'.status = 500
                       /\ UNCHANGED <<preguntas, respuestas, marcas, marcaSeq>>]_vars

\* the store rejected an insert while a brand was registered
C16_Witness ==
    /\ mres.status = 500 /\ mres.op = "add"
    /\ mres.body \in {ErrorBody("Failed to add brand"), ErrorBody("Error al guardar marca")}
    /\ Len(marcas) = 1

\* C17: a dashboard call whose two selects returned rows answers 200 even
\* when the name of some brand cannot be used as a pattern, and the response
\* gives every brand whose name can be used its total over the answers read.
C17_BrandFailureContained ==
    (dpc = "done" /\ readsOk)
        => /\ dres.status = 200
           /\ \A n \in NameSet(dMarcas.rows) :
                 ~RegExpThrows(toLowerCase(n))
                    => /\ n \in DOMAIN dres.body.brandMentions
                       /\ dres.body.brandMentions[n] =
                              SumMentions(n, respuestas, ProviderNames, Len(respuestas))

\* C18: in every 200 response of the dashboard each brand read has a total
\* and a breakdown whose keys are exactly the configured providers; a brand
\* no answer mentions has total 0 and 0 for every provider; and when every
\* answer comes from a configured provider the total of each brand is the
\* sum of its breakdown.
C18_ResultShape ==
    (dpc = "done" /\ dres.status = 200)
        => \A n \in NameSet(dMarcas.rows) :
              LET total == dres.body.brandMentions[n]
                  perModel == dres.body.modelBrandMentions[n]
              IN  /\ n \in DOMAIN dres.body.brandMentions
                  /\ n \in DOMAIN dres.body.modelBrandMentions
                  /\ DOMAIN perModel = Models
                  /\ SumMentions(n, respuestas, ProviderNames, Len(respuestas)) = 0
                        => (total = 0 /\ \A m \in Models : perModel[m] = 0)
                  /\ (\A r \in Rows(respuestas) : r.modelo_llm \in Models)
                        => total = perModel["Gemini"] + perModel["ChatGPT"] + perModel["Claude"]

\* the sequence s is an initial part of the sequence t
IsPrefix(s, t) == Len(s) <= Len(t) /\ \A i \in 1..Len(s) : s[i] = t[i]

\* C19: within one submit callLLMAPI is called for the providers in order
\* with none called twice, for all of them once the call has ended with its
\* Question persisted and for none when the Question was not persisted; an
\* answer insert is issued only for a provider whose text was generated and
\* leaves at most one row per provider; a provider that failed is not
\* called again.
C19_NoRetry ==
    \A c \in Calls :
        LET calls == invoked[c]
            rows == AnswersOf(c)
            persisted == QuestionPersisted(c)
        IN  /\ IsPrefix(calls, models)
            /\ \A i, j \in 1..Len(calls) : calls[i] = calls[j] => i = j
            /\ (pc[c] = "done" /\ persisted) => calls = models
            /\ ~persisted => calls = <<>>
            /\ \A i, j \in rows :
                  respuestas[i].modelo_llm = respuestas[j].modelo_llm => i = j
            /\ \A m \in Models :
                  insOut[c][m] # "none"
                     => (genOut[c][m] = "ok" /\ \E i \in 1..Len(calls) : calls[i] = m)

\* a finished call whose first provider failed and whose second answer was
\* rejected by the store: three invocations, one row
C19_Witness ==
    \E c \in Calls :
        /\ pc[c] = "done" /\ QuestionPersisted(c)
        /\ genOut[c]["Gemini"] = "fail"
        /\ insOut[c]["ChatGPT"] = "error"
        /\ invoked[c] = models
        /\ Cardinality(AnswersOf(c)) = 1

\* C20: a submit whose handler has run to its end, by returning or by an
\* exception that left it, has sent a response, whatever the store and the
\* providers did; and a call still under way has sent none yet.
C20_OneResponse ==
    \A c \in Calls :
        /\ pc[c] \in {"done", "rejected"} => res[c].status \in {200, 400, 500}
        /\ pc[c] \in {"insertPregunta", "callLLMAPI", "insertRespuesta"} => res[c].status = 0

=============================================================================
